---- MODULE Spec2Model ----
(***************************************************************************)
(* aws_security_mcp/tools/wrappers/guardduty_wrapper.py                    *)
(*                                                                         *)
(* guardduty_security_operations(operation, session_context, **params):    *)
(* one call of the dispatcher, from the keyword bag the caller passes to   *)
(* the text it returns or the fault it raises, with the collaborator it    *)
(* awaits as the environment.                                              *)
(***************************************************************************)
EXTENDS Integers, Sequences, FiniteSets, TLC

\* Number of distinct detector ids a caller may pass.
MaxDetectors == 2

(***************************************************************************)
(* Python values.  Every value is a record of the same shape: its runtime  *)
(* type name, the text of a scalar, and the entries of a container (a dict *)
(* keyed by its keys, a list keyed by "0", "1", ...).                      *)
(***************************************************************************)
NoItems == [k \in {} |-> k]

PyNone == [type |-> "NoneType", repr |-> "None", items |-> NoItems]

PyStr(s) == [type |-> "str", repr |-> s, items |-> NoItems]

PyInt(n) == [type |-> "int", repr |-> ToString(n), items |-> NoItems]

PyBool(b) == [type |-> "bool", repr |-> IF b THEN "True" ELSE "False", items |-> NoItems]

PyList(elems) == [type |-> "list", repr |-> "", items |-> elems]

PyDict(entries) == [type |-> "dict", repr |-> "", items |-> entries]

\* bool(v), as `not v` / `v and w` evaluate it
truthy(v) ==
    CASE v.type = "NoneType" -> FALSE
      [] v.type = "str" -> v.repr # ""
      [] v.type = "int" -> v.repr # "0"
      [] v.type = "bool" -> v.repr = "True"
      [] OTHER -> DOMAIN v.items # {}

\* dict.get(key, default)
get(d, key, default) == IF key \in DOMAIN d THEN d[key] ELSE default

(***************************************************************************)
(* json.loads on the texts a caller may put under 'params'.  Each text is  *)
(* listed with the value the parser builds from it; every other text is    *)
(* rejected with the parser's message.                                     *)
(***************************************************************************)
D1 == PyStr("d1")

F1 == PyStr("f1")

CountBySeverity == PyList("0" :> PyStr("COUNT_BY_SEVERITY"))

FindingType == PyStr("FINDING_TYPE")

ObjectTexts ==
    ("{}" :> NoItems)
 @@ ("{\"detector_id\": \"d1\"}" :> [detector_id |-> D1])
 @@ ("{\"finding_id\": \"f1\"}" :> [finding_id |-> F1])
 @@ ("{\"detector_id\": \"d1\", \"finding_id\": \"f1\"}"
        :> [detector_id |-> D1, finding_id |-> F1])
 @@ ("{\"detector_id\": \"d1\", \"max_results\": 10}"
        :> [detector_id |-> D1, max_results |-> PyInt(10)])
 @@ ("{\"detector_id\": \"d1\", \"finding_statistic_types\": [\"COUNT_BY_SEVERITY\"]}"
        :> [detector_id |-> D1, finding_statistic_types |-> CountBySeverity])
 @@ ("{\"detector_id\": \"d1\", \"group_by\": \"FINDING_TYPE\"}"
        :> [detector_id |-> D1, group_by |-> FindingType])
 @@ ("{\"detector_id\": \"d1\", \"finding_statistic_types\": [\"COUNT_BY_SEVERITY\"], \"group_by\": \"FINDING_TYPE\"}"
        :> [detector_id |-> D1, finding_statistic_types |-> CountBySeverity,
            group_by |-> FindingType])
 @@ ("{\"detector_id\": \"d1\", \"finding_statistic_types\": [], \"group_by\": \"FINDING_TYPE\"}"
        :> [detector_id |-> D1, finding_statistic_types |-> PyList(NoItems),
            group_by |-> FindingType])
 @@ ("{\"detector_id\": \"d1\", \"finding_statistic_types\": []}"
        :> [detector_id |-> D1, finding_statistic_types |-> PyList(NoItems)])
 @@ ("{\"detector_id\": \"d1\", \"group_by\": null}"
        :> [detector_id |-> D1, group_by |-> PyNone])
 @@ ("{\"params\": 1}" :> [params |-> PyInt(1)])

NonObjectTexts ==
    ("5" :> PyInt(5))
 @@ ("null" :> PyNone)
 @@ ("true" :> PyBool(TRUE))
 @@ ("\"abc\"" :> PyStr("abc"))
 @@ ("\"\"" :> PyStr(""))
 @@ ("[]" :> PyList(NoItems))
 @@ ("[1, 2]" :> PyList(("0" :> PyInt(1)) @@ ("1" :> PyInt(2))))
 @@ ("[[\"detector_id\", \"d1\"]]"
        :> PyList("0" :> PyList(("0" :> PyStr("detector_id")) @@ ("1" :> D1))))

MalformedTexts ==
    ("not valid json" :> "Expecting value: line 1 column 1 (char 0)")
 @@ ("" :> "Expecting value: line 1 column 1 (char 0)")
 @@ ("{\"detector_id\": }" :> "Expecting value: line 1 column 17 (char 16)")

Texts == DOMAIN ObjectTexts \cup DOMAIN NonObjectTexts \cup DOMAIN MalformedTexts

\* json.loads(text): the parsed value, or the JSONDecodeError it raises
json_loads(text) ==
    IF text \in DOMAIN ObjectTexts
        THEN [ok |-> TRUE, value |-> PyDict(ObjectTexts[text]), msg |-> ""]
    ELSE IF text \in DOMAIN NonObjectTexts
        THEN [ok |-> TRUE, value |-> NonObjectTexts[text], msg |-> ""]
    ELSE [ok |-> FALSE, value |-> PyNone,
          msg |-> get(MalformedTexts, text, "Expecting value: line 1 column 1 (char 0)")]

(***************************************************************************)
(* dict.update(other) for an argument that need not be a mapping: a        *)
(* mapping is merged, any other iterable must yield key/value pairs, and   *)
(* a value that is not iterable is a TypeError.                            *)
(***************************************************************************)
\* the fault one element of the iterable raises, "" when it is a pair
\* (a str element of exactly two characters would also be taken as a pair;
\*  no text above has one)
pair_fault(e) ==
    CASE e.type = "list" -> IF Cardinality(DOMAIN e.items) = 2 THEN "" ELSE "ValueError"
      [] e.type = "str" -> "ValueError"
      [] OTHER -> "TypeError"

\* the fault params.update(other) raises, "" when it succeeds
update_fault(other) ==
    CASE other.type = "dict" -> ""
      [] other.type = "list" ->
            IF \A i \in DOMAIN other.items : pair_fault(other.items[i]) = "" THEN ""
            ELSE LET i == CHOOSE j \in DOMAIN other.items : pair_fault(other.items[j]) # ""
                 IN  pair_fault(other.items[i])
      [] other.type = "str" -> IF other.repr = "" THEN "" ELSE "ValueError"
      [] OTHER -> "TypeError"

\* the entries other contributes (the pairs of the lists above have distinct keys)
entries_of(other) ==
    IF other.type = "dict" THEN other.items
    ELSE IF other.type = "list"
        THEN LET keys == {other.items[i].items["0"].repr : i \in DOMAIN other.items}
             IN  [k \in keys |->
                    LET i == CHOOSE j \in DOMAIN other.items : other.items[j].items["0"].repr = k
                    IN  other.items[i].items["1"]]
    ELSE NoItems

\* d after d.update(other)
update(d, other) ==
    LET e == entries_of(other)
    IN  [k \in DOMAIN d \cup DOMAIN e |-> IF k \in DOMAIN e THEN e[k] ELSE d[k]]

\* d after del d[key]
del(d, key) == [k \in DOMAIN d \ {key} |-> d[k]]

(***************************************************************************)
(* What a call ends with: text it returns (a collaborator's text verbatim  *)
(* in raw, or the object handed to json.dumps in body) or a fault that     *)
(* leaves the function.  site is the place in the function it ends at.     *)
(***************************************************************************)
NoOutcome == [kind |-> "none", site |-> "", raw |-> "", body |-> NoItems, exc |-> ""]

ReturnedRaw(text) ==
    [kind |-> "return", site |-> "collaborator", raw |-> text, body |-> NoItems, exc |-> ""]

ReturnedJson(site, obj) ==
    [kind |-> "return", site |-> site, raw |-> "", body |-> obj, exc |-> ""]

Raised(site, type) ==
    [kind |-> "raise", site |-> site, raw |-> "", body |-> NoItems, exc |-> type]

(***************************************************************************)
(* Lines 90-107: the nested 'params' container.                            *)
(***************************************************************************)
\* the parse-error response without the parser's message
decode_error_response_without_detail(msg) ==
    [error |-> [message |-> "Invalid JSON in params", type |-> "JSONDecodeError"]]

\* the object of the parse-error response (lines 102-107)
decode_error_response(msg) ==
    [error |-> [message |-> "Invalid JSON in params: " \o msg,
                type |-> "JSONDecodeError"]]

\* status "ok": params is the parameter set the branches read;
\* status "decode_error": the function returns body;
\* status "fault": exc leaves the function (no handler encloses line 98).
\* json_bound: whether the function-local name json (bound only by the
\* import at line 96) has a value afterwards.
preprocess(kw) ==
    IF "params" \in DOMAIN kw /\ kw["params"].type = "dict"
        THEN [status |-> "ok", params |-> kw["params"].items, json_bound |-> FALSE,
              exc |-> "", body |-> NoItems]
    ELSE IF "params" \in DOMAIN kw /\ kw["params"].type = "str"
        THEN LET parsed_params == json_loads(kw["params"].repr)
             IN  IF ~parsed_params.ok
                     THEN [status |-> "decode_error", params |-> kw, json_bound |-> TRUE,
                           exc |-> "", body |-> decode_error_response(parsed_params.msg)]
                 ELSE IF update_fault(parsed_params.value) # ""
                     THEN [status |-> "fault", params |-> kw, json_bound |-> TRUE,
                           exc |-> update_fault(parsed_params.value), body |-> NoItems]
                 ELSE [status |-> "ok",
                       params |-> del(update(kw, parsed_params.value), "params"),
                       json_bound |-> TRUE, exc |-> "", body |-> NoItems]
    ELSE [status |-> "ok", params |-> kw, json_bound |-> FALSE,
          exc |-> "", body |-> NoItems]

(***************************************************************************)
(* Lines 109-249: the branch selected by the operation name.               *)
(***************************************************************************)
available_operations ==
    <<"list_detectors", "list_findings", "get_finding_details",
      "list_ip_sets", "list_threat_intel_sets", "get_findings_statistics">>

usage_examples ==
    [list_detectors |-> "operation='list_detectors'",
     list_findings |-> "operation='list_findings', detector_id='detector-id', severity='HIGH'",
     get_finding_details |-> "operation='get_finding_details', detector_id='detector-id', finding_id='finding-id'",
     get_findings_statistics |-> "operation='get_findings_statistics', detector_id='detector-id', finding_statistic_types=['COUNT_BY_SEVERITY']"]

required_params == <<"detector_id", "finding_id">>

StatisticsUsage ==
    "operation='get_findings_statistics', detector_id='detector-id', finding_statistic_types=['COUNT_BY_SEVERITY'] OR group_by='FINDING_TYPE'"

\* str(list) of a list of names, as the f-string at line 145 prints it
RECURSIVE join_quoted(_)
join_quoted(names) ==
    IF names = <<>> THEN ""
    ELSE IF Len(names) = 1 THEN "'" \o Head(names) \o "'"
    ELSE "'" \o Head(names) \o "', " \o join_quoted(Tail(names))

list_repr(names) == "[" \o join_quoted(names) \o "]"

\* the default of max_results in each listing branch (lines 111, 124, 166, 182)
DetectorsMaxResults == 100

PageMaxResults == 50

\* one default for every listing branch
max_results_default_uniform(op) == PyInt(PageMaxResults)

max_results_default(op) ==
    IF op = "list_detectors" THEN PyInt(DetectorsMaxResults) ELSE PyInt(PageMaxResults)

\* a branch ends by awaiting one collaborator or by returning json.dumps(body)
Await(target, args) == [kind |-> "await", target |-> target, kwargs |-> args, body |-> NoItems]

Dumps(obj) == [kind |-> "dumps", target |-> "", kwargs |-> NoItems, body |-> obj]

\* 'detector_id is required' (lines 117-120, 160-163, 176-179, 193-196)
detector_id_required(op, usage) ==
    Dumps([error |-> "detector_id is required for " \o op \o " operation", usage |-> usage])

dispatch(op, sc, p) ==
    IF op = "list_detectors" THEN
        Await("_list_detectors",
              [max_results |-> get(p, "max_results", max_results_default(op)),
               session_context |-> sc])
    ELSE IF op = "list_findings" THEN
        IF "detector_id" \notin DOMAIN p
            THEN detector_id_required(op, "operation='list_findings', detector_id='your-detector-id'")
        ELSE Await("_list_findings",
              [detector_id |-> p["detector_id"],
               max_results |-> get(p, "max_results", max_results_default(op)),
               finding_ids |-> get(p, "finding_ids", PyNone),
               severity |-> get(p, "severity", PyNone),
               search_term |-> get(p, "search_term", PyNone),
               session_context |-> sc])
    ELSE IF op = "get_finding_details" THEN
        LET missing_params == SelectSeq(required_params, LAMBDA param : param \notin DOMAIN p)
        IN  IF missing_params # <<>>
                THEN Dumps([error |-> "Missing required parameters: " \o list_repr(missing_params),
                            usage |-> "operation='get_finding_details', detector_id='detector-id', finding_id='finding-id'"])
            ELSE Await("_get_finding_details",
                  [detector_id |-> p["detector_id"],
                   finding_id |-> p["finding_id"],
                   session_context |-> sc])
    ELSE IF op = "list_ip_sets" THEN
        IF "detector_id" \notin DOMAIN p
            THEN detector_id_required(op, "operation='list_ip_sets', detector_id='your-detector-id'")
        ELSE Await("_list_ip_sets",
              [detector_id |-> p["detector_id"],
               max_results |-> get(p, "max_results", max_results_default(op)),
               session_context |-> sc])
    ELSE IF op = "list_threat_intel_sets" THEN
        IF "detector_id" \notin DOMAIN p
            THEN detector_id_required(op, "operation='list_threat_intel_sets', detector_id='your-detector-id'")
        ELSE Await("_list_threat_intel_sets",
              [detector_id |-> p["detector_id"],
               max_results |-> get(p, "max_results", max_results_default(op)),
               session_context |-> sc])
    ELSE IF op = "get_findings_statistics" THEN
        IF "detector_id" \notin DOMAIN p
            THEN detector_id_required(op, StatisticsUsage)
        ELSE LET finding_statistic_types == get(p, "finding_statistic_types", PyNone)
                 group_by == get(p, "group_by", PyNone)
             IN  IF ~truthy(finding_statistic_types) /\ ~truthy(group_by)
                     THEN Dumps([error |-> "Either finding_statistic_types or group_by parameter is required",
                                 usage |-> StatisticsUsage])
                 ELSE IF truthy(finding_statistic_types) /\ truthy(group_by)
                     THEN Dumps([error |-> "Cannot provide both finding_statistic_types and group_by parameters",
                                 usage |-> StatisticsUsage])
                 ELSE Await("_get_findings_statistics",
                       [detector_id |-> p["detector_id"],
                        finding_statistic_types |-> finding_statistic_types,
                        group_by |-> group_by,
                        finding_criteria |-> get(p, "finding_criteria", PyNone),
                        order_by |-> get(p, "order_by", PyNone),
                        max_results |-> get(p, "max_results", PyNone),
                        session_context |-> sc])
    ELSE Dumps([error |-> "Unknown operation: " \o op,
                available_operations |-> available_operations,
                usage_examples |-> usage_examples])

(***************************************************************************)
(* Lines 251-262: the handler of the try block.  A return statement of a   *)
(* branch and the handler itself both read the local name json; where it   *)
(* has no value the read raises UnboundLocalError, in the branch (caught   *)
(* here) and then in the handler (not caught by anything).                 *)
(***************************************************************************)
except_handler(op, p, bound, e) ==
    IF bound
        THEN ReturnedJson("except",
                [error |-> [message |-> "Error executing GuardDuty operation '" \o op
                                            \o "': " \o e.message,
                            type |-> e.type,
                            operation |-> op,
                            parameters |-> p]])
    ELSE Raised("except", "UnboundLocalError")

\* return json.dumps(obj) inside the try block
return_dumps(op, p, bound, obj) ==
    IF bound THEN ReturnedJson("branch", obj)
    ELSE except_handler(op, p, bound,
            [type |-> "UnboundLocalError",
             message |-> "cannot access local variable 'json' where it is not associated with a value"])

(***************************************************************************)
(* The calls a caller may make.                                            *)
(***************************************************************************)
KnownOperations == {available_operations[i] : i \in DOMAIN available_operations}

UnknownOperations == {"bogus", "List_Detectors"}

Operations == KnownOperations \cup UnknownOperations

SessionContexts == {PyNone, PyStr("123456789012_aws_dev")}

DetectorNames == <<"d1", "d2", "d3", "d4">>

DetectorIds == {DetectorNames[i] : i \in 1..MaxDetectors}

DirectKeys ==
    {"detector_id", "finding_id", "finding_statistic_types", "group_by",
     "max_results", "severity"}

ValuesOf(key) ==
    CASE key = "detector_id" -> {PyStr(d) : d \in DetectorIds}
      [] key = "finding_id" -> {F1}
      [] key = "finding_statistic_types" -> {CountBySeverity, PyList(NoItems)}
      [] key = "group_by" -> {FindingType, PyStr(""), PyNone}
      [] key = "max_results" -> {PyInt(10)}
      [] key = "severity" -> {PyStr("HIGH")}

\* keyword bags without a 'params' key
DirectBags ==
    UNION {{f \in [S -> UNION {ValuesOf(k) : k \in S}] : \A k \in S : f[k] \in ValuesOf(k)}
           : S \in SUBSET DirectKeys}

\* what a caller passes alongside a 'params' key
SiblingBags ==
    {NoItems, [detector_id |-> D1], [max_results |-> PyInt(10)],
     [detector_id |-> PyStr("d2"), max_results |-> PyInt(10)]}

KeywordBags ==
    DirectBags
    \cup {sib @@ ("params" :> PyDict(nested)) : sib \in SiblingBags, nested \in DirectBags}
    \cup {sib @@ ("params" :> PyStr(text)) : sib \in SiblingBags, text \in Texts}
    \cup {sib @@ ("params" :> PyInt(5)) : sib \in SiblingBags}

\* what the awaited collaborator may do
CollaboratorTexts == {"{\"detectors\": []}", "{\"error\": \"AccessDeniedException\"}"}

Faults ==
    {[type |-> "ClientError", message |-> "AccessDeniedException"],
     [type |-> "RuntimeError", message |-> "boom"]}

NoFault == [type |-> "", message |-> ""]

NoReply == [kind |-> "none", text |-> "", fault |-> NoFault]

(***************************************************************************)
(* Lines 265-428: discover_guardduty_operations.  The catalog is a literal *)
(* handed to json.dumps through the module-level json of line 7; of each   *)
(* operation entry the description, the parameter names and the names of   *)
(* its further fields are kept.                                            *)
(***************************************************************************)
CatalogEntry(description, parameters, fields) ==
    [description |-> description, parameters |-> parameters, fields |-> fields]

CommonFields == {"description", "parameters", "examples", "use_cases"}

\* the catalog without the threat-intel entry
catalog_operations_short ==
    [list_detectors |->
        CatalogEntry("List all GuardDuty detectors in the AWS account",
                     {"max_results", "session_context"}, CommonFields),
     list_findings |->
        CatalogEntry("Retrieve security findings with advanced filtering capabilities",
                     {"detector_id", "max_results", "severity", "search_term",
                      "finding_ids", "session_context"}, CommonFields),
     get_finding_details |->
        CatalogEntry("Get comprehensive details about a specific security finding",
                     {"detector_id", "finding_id", "session_context"}, CommonFields),
     list_ip_sets |->
        CatalogEntry("List trusted and threat IP sets configured in GuardDuty",
                     {"detector_id", "max_results", "session_context"}, CommonFields),
     get_findings_statistics |->
        CatalogEntry("Get official AWS-calculated statistics (severity counts, grouping)",
                     {"detector_id", "finding_statistic_types", "group_by",
                      "finding_criteria", "order_by", "max_results", "session_context"},
                     CommonFields \cup {"usage_notes"})]

\* the "operations" mapping of the catalog (lines 286-411)
catalog_operations ==
    [list_detectors |->
        CatalogEntry("List all GuardDuty detectors in the AWS account",
                     {"max_results", "session_context"}, CommonFields),
     list_findings |->
        CatalogEntry("Retrieve security findings with advanced filtering capabilities",
                     {"detector_id", "max_results", "severity", "search_term",
                      "finding_ids", "session_context"}, CommonFields),
     get_finding_details |->
        CatalogEntry("Get comprehensive details about a specific security finding",
                     {"detector_id", "finding_id", "session_context"}, CommonFields),
     list_ip_sets |->
        CatalogEntry("List trusted and threat IP sets configured in GuardDuty",
                     {"detector_id", "max_results", "session_context"}, CommonFields),
     list_threat_intel_sets |->
        CatalogEntry("List threat intelligence feeds and indicators",
                     {"detector_id", "max_results", "session_context"}, CommonFields),
     get_findings_statistics |->
        CatalogEntry("Get official AWS-calculated statistics (severity counts, grouping)",
                     {"detector_id", "finding_statistic_types", "group_by",
                      "finding_criteria", "order_by", "max_results", "session_context"},
                     CommonFields \cup {"usage_notes"})]

operations_catalog ==
    [service |-> "AWS GuardDuty",
     description |-> "Threat detection and continuous security monitoring service",
     wrapper_tool |-> "guardduty_security_operations",
     cross_account_support |-> [enabled |-> TRUE, parameter |-> "session_context",
                                format |-> "123456789012_aws_dev"],
     operations |-> catalog_operations,
     security_insights |-> {"best_practices", "common_workflows"}]

\* discover_guardduty_operations(): return json.dumps(operations_catalog, indent=2)
discover_guardduty_operations == ReturnedJson("catalog", operations_catalog)

(***************************************************************************)
(* State of one call.                                                      *)
(***************************************************************************)
VARIABLES
    pc,               \* "idle", "awaiting" (suspended at an await), "done",
                      \* "catalog" (discover_guardduty_operations has returned)
    operation,        \* the operation argument
    session_context,  \* the session_context argument
    kwargs,           \* the keyword bag as the caller passed it
    params,           \* the local params as the branches see it
    json_bound,       \* whether the local name json has a value
    calls,            \* collaborator invocations made so far, in order
    reply,            \* what the awaited collaborator did
    outcome           \* what the call ended with

vars == <<pc, operation, session_context, kwargs, params, json_bound, calls, reply, outcome>>

Init ==
    /\ pc = "idle"
    /\ operation = ""
    /\ session_context = PyNone
    /\ kwargs = NoItems
    /\ params = NoItems
    /\ json_bound = FALSE
    /\ calls = <<>>
    /\ reply = NoReply
    /\ outcome = NoOutcome

\* guardduty_security_operations(op, sc, **kw), up to its return or its await
Call(op, sc, kw) ==
    /\ operation' = op
    /\ session_context' = sc
    /\ kwargs' = kw
    /\ reply' = NoReply
    /\ LET pre == preprocess(kw)
           branch == dispatch(op, sc, pre.params)
       IN  /\ params' = pre.params
           /\ json_bound' = pre.json_bound
           /\ IF pre.status = "decode_error"
                  THEN /\ outcome' = ReturnedJson("parse", pre.body)
                       /\ calls' = <<>>
                       /\ pc' = "done"
              ELSE IF pre.status = "fault"
                  THEN /\ outcome' = Raised("parse", pre.exc)
                       /\ calls' = <<>>
                       /\ pc' = "done"
              ELSE IF branch.kind = "dumps"
                  THEN /\ outcome' = return_dumps(op, pre.params, pre.json_bound, branch.body)
                       /\ calls' = <<>>
                       /\ pc' = "done"
              ELSE /\ outcome' = NoOutcome
                   /\ calls' = <<[target |-> branch.target, kwargs |-> branch.kwargs]>>
                   /\ pc' = "awaiting"

\* a caller makes a call
Invoke ==
    /\ pc = "idle"
    /\ \E op \in Operations, sc \in SessionContexts, kw \in KeywordBags : Call(op, sc, kw)

\* the awaited collaborator returns text: the call returns it
CollaboratorReturns(text) ==
    /\ pc = "awaiting"
    /\ reply' = [kind |-> "returned", text |-> text, fault |-> NoFault]
    /\ outcome' = ReturnedRaw(text)
    /\ pc' = "done"
    /\ UNCHANGED <<operation, session_context, kwargs, params, json_bound, calls>>

\* the awaited collaborator raises: the handler at lines 251-262 runs
CollaboratorRaises(e) ==
    /\ pc = "awaiting"
    /\ reply' = [kind |-> "raised", text |-> "", fault |-> e]
    /\ outcome' = except_handler(operation, params, json_bound, e)
    /\ pc' = "done"
    /\ UNCHANGED <<operation, session_context, kwargs, params, json_bound, calls>>

\* a caller asks for the catalog: discover_guardduty_operations()
Discover ==
    /\ pc = "idle"
    /\ outcome' = discover_guardduty_operations
    /\ pc' = "catalog"
    /\ UNCHANGED <<operation, session_context, kwargs, params, json_bound, calls, reply>>

\* the caller has the result; the call's locals are gone
Finish ==
    /\ pc \in {"done", "catalog"}
    /\ pc' = "idle"
    /\ operation' = ""
    /\ session_context' = PyNone
    /\ kwargs' = NoItems
    /\ params' = NoItems
    /\ json_bound' = FALSE
    /\ calls' = <<>>
    /\ reply' = NoReply
    /\ outcome' = NoOutcome

Next ==
    \/ Invoke
    \/ \E text \in CollaboratorTexts : CollaboratorReturns(text)
    \/ \E e \in Faults : CollaboratorRaises(e)
    \/ Discover
    \/ Finish

Spec == Init /\ [][Next]_vars

(***************************************************************************)
(* The whole function as one map from its arguments and the behaviour of   *)
(* the collaborator it awaits (rep) to what the call ends with and to the  *)
(* collaborator invocations it makes.                                      *)
(***************************************************************************)
guardduty_security_operations(op, sc, kw, rep) ==
    LET pre == preprocess(kw)
        branch == dispatch(op, sc, pre.params)
    IN  IF pre.status = "decode_error" THEN ReturnedJson("parse", pre.body)
        ELSE IF pre.status = "fault" THEN Raised("parse", pre.exc)
        ELSE IF branch.kind = "dumps"
            THEN return_dumps(op, pre.params, pre.json_bound, branch.body)
        ELSE IF rep.kind = "returned" THEN ReturnedRaw(rep.text)
        ELSE except_handler(op, pre.params, pre.json_bound, rep.fault)

invocations(op, sc, kw) ==
    LET pre == preprocess(kw)
        branch == dispatch(op, sc, pre.params)
    IN  IF pre.status = "ok" /\ branch.kind = "await"
            THEN <<[target |-> branch.target, kwargs |-> branch.kwargs]>>
        ELSE <<>>

(***************************************************************************)
(* Vocabulary of the properties.                                           *)
(***************************************************************************)
\* the call has ended
Ended == pc = "done"

\* preprocessing has produced the normalized parameter set, held in params
Normalized == pc # "idle" /\ outcome.site # "parse"

\* the caller passed a 'params' key holding a mapping / holding text
NestedMapping == pc # "idle" /\ "params" \in DOMAIN kwargs /\ kwargs["params"].type = "dict"

NestedText == pc # "idle" /\ "params" \in DOMAIN kwargs /\ kwargs["params"].type = "str"

\* the call returned the text of json.dumps(obj) for an obj with these fields
ReturnsObjectWith(fields) ==
    /\ outcome.kind = "return"
    /\ outcome.site # "collaborator"
    /\ fields \subseteq DOMAIN outcome.body

\* the call returned a validation error (a plain message and a usage hint)
ReturnsUsageError ==
    /\ outcome.kind = "return"
    /\ outcome.site = "branch"
    /\ DOMAIN outcome.body = {"error", "usage"}

\* the call returned exactly what the collaborator returned
ReturnsCollaboratorText ==
    /\ reply.kind = "returned"
    /\ outcome.kind = "return"
    /\ outcome.site = "collaborator"
    /\ outcome.raw = reply.text

Present(key) == key \in DOMAIN params

\* key is present with a value that is neither null nor empty
Supplied(key) == key \in DOMAIN params /\ truthy(params[key])

NeedsDetector ==
    {"list_findings", "get_finding_details", "list_ip_sets",
     "list_threat_intel_sets", "get_findings_statistics"}

\* the argument a collaborator is to receive under name key
Forwarded(key) ==
    IF key = "session_context" THEN session_context
    ELSE IF key \in DOMAIN params THEN params[key]
    ELSE IF key = "max_results" /\ operation = "list_detectors" THEN PyInt(100)
    ELSE IF key = "max_results"
            /\ operation \in {"list_findings", "list_ip_sets", "list_threat_intel_sets"}
        THEN PyInt(50)
    ELSE PyNone

\* the names each collaborator must at least be passed
MustForward ==
    [list_detectors |-> {"max_results", "session_context"},
     list_findings |-> {"detector_id", "max_results", "session_context"},
     get_finding_details |-> {"detector_id", "finding_id", "session_context"},
     list_ip_sets |-> {"detector_id", "max_results", "session_context"},
     list_threat_intel_sets |-> {"detector_id", "max_results", "session_context"},
     get_findings_statistics |-> {"detector_id", "finding_statistic_types", "group_by",
                                  "session_context"}]

\* exactly the matching collaborator was invoked, once, with the normalized
\* parameters, the defaults and the caller's session_context
InvokedMatchingOnce ==
    /\ Len(calls) = 1
    /\ calls[1].target = "_" \o operation
    /\ MustForward[operation] \subseteq DOMAIN calls[1].kwargs
    /\ \A key \in DOMAIN calls[1].kwargs : calls[1].kwargs[key] = Forwarded(key)

\* the required parameters of the operation, by presence of the key
RequiredPresent ==
    CASE operation = "list_detectors" -> TRUE
      [] operation = "get_finding_details" -> Present("detector_id") /\ Present("finding_id")
      [] operation = "get_findings_statistics" ->
            /\ Present("detector_id")
            /\ Present("finding_statistic_types") # Present("group_by")
      [] OTHER -> Present("detector_id")

\* the same, the exclusive pair counted by non-empty, non-null value
RequiredSupplied ==
    CASE operation = "list_detectors" -> TRUE
      [] operation = "get_finding_details" -> Present("detector_id") /\ Present("finding_id")
      [] operation = "get_findings_statistics" ->
            /\ Present("detector_id")
            /\ Supplied("finding_statistic_types") # Supplied("group_by")
      [] OTHER -> Present("detector_id")

(***************************************************************************)
(* Properties.                                                             *)
(***************************************************************************)
\* C1: no fault ever escapes guardduty_security_operations: every call ends
\* by returning text, never by raising.
C1_NoFaultEscapes == Ended => outcome.kind = "return"

\* C2 (as stated): for a known operation whose required parameters are all
\* present (by key), exactly the matching collaborator is invoked once with
\* the normalized parameters, the max_results defaults and the caller's
\* session_context, and what it returns is returned unmodified.
C2_ForwardsWhenRequiredPresent ==
    (Normalized /\ operation \in KnownOperations /\ RequiredPresent)
        => /\ InvokedMatchingOnce
           /\ (Ended /\ reply.kind # "raised") => ReturnsCollaboratorText

\* C2 (amended): the same, where for get_findings_statistics exactly one of
\* finding_statistic_types and group_by carries a non-empty, non-null value.
C2_ForwardsWhenRequiredSupplied ==
    (Normalized /\ operation \in KnownOperations /\ RequiredSupplied)
        => /\ InvokedMatchingOnce
           /\ (Ended /\ reply.kind # "raised") => ReturnsCollaboratorText

C2_Witness ==
    /\ Ended
    /\ operation = "get_findings_statistics"
    /\ NestedText
    /\ Supplied("group_by")
    /\ Present("finding_statistic_types") /\ ~Supplied("finding_statistic_types")
    /\ InvokedMatchingOnce
    /\ ReturnsCollaboratorText

\* C3: when the matched collaborator raises, the call returns a structured
\* error whose 'error' object carries the failure message, the fault's type
\* name, the operation and the normalized parameters.
C3_CollaboratorFaultReported ==
    (Ended /\ reply.kind = "raised")
        => /\ ReturnsObjectWith({"error"})
           /\ outcome.site = "except"
           /\ outcome.body.error.type = reply.fault.type
           /\ outcome.body.error.operation = operation
           /\ outcome.body.error.parameters = params
           /\ outcome.body.error.message =
                "Error executing GuardDuty operation '" \o operation \o "': "
                    \o reply.fault.message

\* C4: for the five operations that need detector_id, a call whose normalized
\* parameters omit it returns an error with a usage hint and invokes no
\* collaborator.
C4_MissingDetectorIdReported ==
    (Ended /\ Normalized /\ operation \in NeedsDetector /\ ~Present("detector_id"))
        => ReturnsObjectWith({"error", "usage"}) /\ calls = <<>>

\* C5: get_findings_statistics with detector_id present: both of
\* finding_statistic_types and group_by present (whatever their values) is a
\* conflict error, neither present is a 'required' error, neither error
\* invokes a collaborator; exactly one present invokes the statistics
\* collaborator and returns its result.
C5_StatisticsExclusivePair ==
    (Ended /\ Normalized /\ operation = "get_findings_statistics" /\ Present("detector_id"))
        => /\ (Present("finding_statistic_types") /\ Present("group_by"))
                => /\ ReturnsUsageError
                   /\ outcome.body.error
                        = "Cannot provide both finding_statistic_types and group_by parameters"
                   /\ calls = <<>>
           /\ (~Present("finding_statistic_types") /\ ~Present("group_by"))
                => /\ ReturnsUsageError
                   /\ outcome.body.error
                        = "Either finding_statistic_types or group_by parameter is required"
                   /\ calls = <<>>
           /\ (Present("finding_statistic_types") # Present("group_by"))
                => /\ Len(calls) = 1
                   /\ calls[1].target = "_get_findings_statistics"
                   /\ reply.kind = "returned" => ReturnsCollaboratorText

\* C6: for every operation string that is not one of the six names, whatever
\* else is passed, the call returns an error whose available_operations is
\* the six known names, and invokes no collaborator.
C6_UnknownOperationReported ==
    (Ended /\ operation \notin KnownOperations)
        => /\ ReturnsObjectWith({"error", "available_operations"})
           /\ outcome.body.available_operations =
                <<"list_detectors", "list_findings", "get_finding_details",
                  "list_ip_sets", "list_threat_intel_sets", "get_findings_statistics">>
           /\ calls = <<>>

\* C7: a 'params' key holding a mapping is merged into the top-level
\* parameters: everything passed alongside it is still in the normalized
\* parameter set, together with the nested entries.
C7_NestedMappingMerged ==
    NestedMapping
        => /\ \A key \in DOMAIN kwargs \ {"params"} : key \in DOMAIN params
           /\ \A key \in DOMAIN kwargs["params"].items :
                key \in DOMAIN params /\ params[key] = kwargs["params"].items[key]

\* C8: a call with params = {'params': T}, T the text of the object P, makes
\* the same collaborator invocation and ends with the same returned text as
\* the call with P passed directly, and 'params' is not a normalized
\* parameter.
C8_TextPayloadEqualsDirect ==
    (Ended /\ NestedText /\ DOMAIN kwargs = {"params"}
           /\ kwargs["params"].repr \in DOMAIN ObjectTexts)
        => LET P == ObjectTexts[kwargs["params"].repr]
               direct == guardduty_security_operations(operation, session_context, P, reply)
           IN  /\ calls = invocations(operation, session_context, P)
               /\ outcome.kind = "return"
               /\ direct.kind = "return"
               /\ outcome.raw = direct.raw
               /\ DOMAIN outcome.body = DOMAIN direct.body
               /\ outcome.body = direct.body
               /\ ~Present("params")

\* C9: a 'params' key holding text that fails JSON parsing ends the call, for
\* every operation string, with a parse-error response (type
\* 'JSONDecodeError', message echoing the parse failure) returned before any
\* branch is selected, and no collaborator is invoked.
C9_MalformedTextReported ==
    (NestedText /\ ~json_loads(kwargs["params"].repr).ok)
        => /\ Ended
           /\ outcome.kind = "return"
           /\ outcome.site = "parse"
           /\ DOMAIN outcome.body = {"error"}
           /\ outcome.body.error.type = "JSONDecodeError"
           /\ outcome.body.error.message =
                "Invalid JSON in params: " \o json_loads(kwargs["params"].repr).msg
           /\ calls = <<>>
           /\ reply.kind = "none"

C9_Witness ==
    /\ Ended
    /\ NestedText
    /\ kwargs["params"].repr = "{\"detector_id\": }"
    /\ "detector_id" \in DOMAIN kwargs
    /\ operation = "list_ip_sets"
    /\ outcome.kind = "return"
    /\ outcome.site = "parse"
    /\ outcome.body.error.type = "JSONDecodeError"
    /\ calls = <<>>

\* C10: get_finding_details with detector_id or finding_id absent from the
\* normalized parameters returns an error naming exactly the missing
\* field(s) and invokes no collaborator.
C10_MissingFieldsNamed ==
    (Ended /\ Normalized /\ operation = "get_finding_details"
           /\ ~(Present("detector_id") /\ Present("finding_id")))
        => /\ ReturnsUsageError
           /\ outcome.body.error =
                "Missing required parameters: "
                    \o (IF Present("finding_id") THEN "['detector_id']"
                        ELSE IF Present("detector_id") THEN "['finding_id']"
                        ELSE "['detector_id', 'finding_id']")
           /\ calls = <<>>

\* the operation names the dispatcher has a branch for: those it does not
\* answer with the unknown-operation error
HasBranch(op) == "available_operations" \notin DOMAIN dispatch(op, PyNone, NoItems).body

\* C11: discover_guardduty_operations never fails, and the 'operations'
\* mapping of the catalog it returns has exactly six entries, named exactly
\* as the six operations the dispatcher has a branch for and as the
\* unknown-operation error lists under available_operations.
C11_CatalogMatchesDispatcher ==
    (pc = "catalog")
        => /\ outcome.kind = "return"
           /\ "operations" \in DOMAIN outcome.body
           /\ Cardinality(DOMAIN outcome.body.operations) = 6
           /\ \A op \in Operations \cup DOMAIN outcome.body.operations :
                (op \in DOMAIN outcome.body.operations) <=> HasBranch(op)
           /\ DOMAIN outcome.body.operations
                = {dispatch("bogus", PyNone, NoItems).body.available_operations[i] :
                     i \in 1..Len(dispatch("bogus", PyNone, NoItems).body.available_operations)}

C11_Witness ==
    /\ pc = "catalog"
    /\ outcome.kind = "return"
    /\ outcome.site = "catalog"
    /\ "list_threat_intel_sets" \in DOMAIN outcome.body.operations

\* C12: the structured error returned for an unknown operation carries a
\* usage example for each known operation: the keys of its usage_examples
\* are the six names of its available_operations.
C12_UsageExamplePerOperation ==
    (Ended /\ operation \notin KnownOperations /\ outcome.kind = "return"
           /\ outcome.site = "branch")
        => /\ {"available_operations", "usage_examples"} \subseteq DOMAIN outcome.body
           /\ DOMAIN outcome.body.usage_examples
                = {outcome.body.available_operations[i] :
                     i \in 1..Len(outcome.body.available_operations)}

====
